---------------------------- MODULE Spec2Model ----------------------------
(***************************************************************************)
(* Model of script/refactor.py: the DataProcessor dispatcher, the five     *)
(* per-table processors and the FeatureProcessor pipeline.                 *)
(*                                                                         *)
(* A DataFrame is a record [cols, rows]: the set of column names and the   *)
(* sequence of rows, each row a function from the column names to cells.   *)
(* A cell is <<>> for a missing value (NaN / NaT / None) and <<v>> for a    *)
(* present value v, so that a string 'nan' written by fillna is distinct   *)
(* from a missing value, as it is in pandas.  Column order is not modelled.*)
(* Python exceptions are modelled as an error tag carried in the result:   *)
(*   "StageOrderError"     the assert on _state in FeatureProcessor        *)
(*   "DispatchError"       the two asserts of DataProcessor.process        *)
(*   "DataIntegrityError"  the assert(~df.isnull().any().any()) of a parse *)
(*   "KeyError"            pandas' KeyError for a column that is absent     *)
(***************************************************************************)
EXTENDS Integers, Sequences, FiniteSets, TLC

-----------------------------------------------------------------------------
(* Cells *)

NULL == <<>>

Val(v) == <<v>>

IsNull(c) == Len(c) = 0

\* F applied to the value of e, which is computed once
Bind(e, F(_)) == CHOOSE r \in {F(x) : x \in {e}} : TRUE

Get(c) == c[1]

-----------------------------------------------------------------------------
(* DataFrames *)

\* Python's None for a table reference; a DataFrame of this program always has
\* at least one column.
None == [cols |-> {}, rows |-> <<>>]

DataFrame(cols, rows) == [cols |-> cols, rows |-> rows]

NRows(df) == Len(df.rows)

HasCols(df, cs) == cs \subseteq df.cols

\* df.isnull().any().any()
AnyNull(df) == \E i \in 1..Len(df.rows) : \E c \in df.cols : IsNull(df.rows[i][c])

\* df[c].fillna(v, inplace=True)
FillNa(df, c, v) ==
    [df EXCEPT !.rows = [i \in 1..Len(df.rows) |->
        [df.rows[i] EXCEPT ![c] = IF IsNull(@) THEN Val(v) ELSE @]]]

\* df[c] = <row-wise expression>; F(row) is the new cell of the row
SetCol(df, c, F(_)) ==
    [cols |-> df.cols \cup {c},
     rows |-> [i \in 1..Len(df.rows) |->
                 [k \in df.cols \cup {c} |->
                     IF k = c THEN F(df.rows[i]) ELSE df.rows[i][k]]]]

\* df.drop(cs, axis=1) and df[[...]] column selection
Drop(df, cs) ==
    [cols |-> df.cols \ cs,
     rows |-> [i \in 1..Len(df.rows) |-> [k \in df.cols \ cs |-> df.rows[i][k]]]]

Select(df, cs) == Drop(df, df.cols \ cs)

RECURSIVE Flatten(_)
Flatten(ss) == IF ss = <<>> THEN <<>> ELSE Head(ss) \o Flatten(Tail(ss))

\* the rows of df whose cell in column key equals k, in order (pandas joins a
\* missing key to a missing key)
Matching(df, key, k) == SelectSeq(df.rows, LAMBDA r : r[key] = k)

\* A left merge that loses the left rows without a partner (how='inner').
MergeInner(left, right, key) ==
    LET overlap == (left.cols \cap right.cols) \ {key}
        LName(c) == IF c \in overlap THEN c \o "_x" ELSE c
        RName(c) == IF c \in overlap THEN c \o "_y" ELSE c
        lcols == {LName(c) : c \in left.cols}
        rcols == {RName(c) : c \in right.cols \ {key}}
        LSrc(n) == CHOOSE c \in left.cols : LName(c) = n
        RSrc(n) == CHOOSE c \in right.cols \ {key} : RName(c) = n
        Joined(l, r) == [n \in lcols \cup rcols |->
                            IF overlap = {} THEN (IF n \in left.cols THEN l[n] ELSE r[n])
                            ELSE IF n \in lcols THEN l[LSrc(n)] ELSE r[RSrc(n)]]
        Expand(l) == LET ms == Matching(right, key, l[key])
                     IN  [j \in 1..Len(ms) |-> Joined(l, ms[j])]
    IN  [cols |-> lcols \cup rcols,
         rows |-> Flatten([i \in 1..Len(left.rows) |-> Expand(left.rows[i])])]

\* left.merge(right, on=key, how='left'): every left row is kept; it appears
\* once per right row with the same key, and once with missing right-hand
\* cells when there is none.  A non-key column present on both sides is
\* renamed with the suffixes _x and _y.
Merge(left, right, key) ==
    LET overlap == (left.cols \cap right.cols) \ {key}
        LName(c) == IF c \in overlap THEN c \o "_x" ELSE c
        RName(c) == IF c \in overlap THEN c \o "_y" ELSE c
        lcols == {LName(c) : c \in left.cols}
        rcols == {RName(c) : c \in right.cols \ {key}}
        LSrc(n) == CHOOSE c \in left.cols : LName(c) = n
        RSrc(n) == CHOOSE c \in right.cols \ {key} : RName(c) = n
        Joined(l, r) == [n \in lcols \cup rcols |->
                            IF overlap = {} THEN (IF n \in left.cols THEN l[n] ELSE r[n])
                            ELSE IF n \in lcols THEN l[LSrc(n)] ELSE r[RSrc(n)]]
        Alone(l) == [n \in lcols \cup rcols |->
                            IF overlap = {} THEN (IF n \in left.cols THEN l[n] ELSE NULL)
                            ELSE IF n \in lcols THEN l[LSrc(n)] ELSE NULL]
        Expand(l) == LET ms == Matching(right, key, l[key])
                     IN  IF ms = <<>> THEN << Alone(l) >>
                         ELSE [j \in 1..Len(ms) |-> Joined(l, ms[j])]
    IN  [cols |-> lcols \cup rcols,
         rows |-> Flatten([i \in 1..Len(left.rows) |-> Expand(left.rows[i])])]

\* a.append(b): rows of a then rows of b over the union of the columns
Append2(a, b) ==
    LET cs == a.cols \cup b.cols
        Widen(df, r) == [k \in cs |-> IF k \in df.cols THEN r[k] ELSE NULL]
    IN  [cols |-> cs,
         rows |-> [i \in 1..Len(a.rows) |-> Widen(a, a.rows[i])]
                  \o [i \in 1..Len(b.rows) |-> Widen(b, b.rows[i])]]

RECURSIVE SetToSeq(_)
SetToSeq(S) == IF S = {} THEN <<>>
               ELSE LET x == CHOOSE y \in S : TRUE IN <<x>> \o SetToSeq(S \ {x})

\* the distinct present values of column c (groupby and value_counts drop
\* missing keys)
Keys(df, c) == {df.rows[i][c] : i \in 1..Len(df.rows)} \ {NULL}

\* number of rows of df whose cell in column c is k
CountRows(df, c, k) == Len(Matching(df, c, k))

\* A per-key table that keeps one row per source row instead of one per key.
ValueCountsPerRow(df, c, name) ==
    [cols |-> {c, name},
     rows |-> [i \in 1..Len(df.rows) |-> (c :> df.rows[i][c]) @@ (name :> Val(1))]]

\* df[c].value_counts().reset_index() with columns [c, name]: one row per
\* present value of c, holding the number of rows with that value.  (The
\* order of the rows, by decreasing count, does not matter to a left merge.)
ValueCounts(df, c, name) ==
    LET ks == SetToSeq(Keys(df, c))
    IN  [cols |-> {c, name},
         rows |-> [i \in 1..Len(ks) |->
                     (c :> ks[i]) @@ (name :> Val(CountRows(df, c, ks[i])))]]

\* df.drop_duplicates(cs): the first row of each combination of cells in cs
\* (missing cells compare equal here)
DropDuplicates(df, cs) ==
    LET Same(r, s) == \A c \in cs : r[c] = s[c]
        First(i) == \A j \in 1..(i - 1) : ~Same(df.rows[j], df.rows[i])
        RECURSIVE Keep(_)
        Keep(i) == IF i > Len(df.rows) THEN <<>>
                   ELSE (IF First(i) THEN << df.rows[i] >> ELSE <<>>) \o Keep(i + 1)
    IN  [cols |-> df.cols, rows |-> Keep(1)]

\* sum and count of the present cells of column c over a sequence of rows
RECURSIVE SumCol(_, _)
SumCol(rows, c) ==
    IF rows = <<>> THEN 0
    ELSE (IF IsNull(Head(rows)[c]) THEN 0 ELSE Get(Head(rows)[c])) + SumCol(Tail(rows), c)

CountCol(rows, c) == Len(SelectSeq(rows, LAMBDA r : ~IsNull(r[c])))

\* the mean of column c over rows, as the exact fraction sum/count; missing
\* when no cell is present
MeanCol(rows, c) ==
    IF CountCol(rows, c) = 0 THEN NULL
    ELSE Val([num |-> SumCol(rows, c), den |-> CountCol(rows, c)])

-----------------------------------------------------------------------------
(* Results of a parse or a dispatch.  err is "" on a normal return.  res is  *)
(* the returned table (None when the call raised).  inp is the caller's      *)
(* table object as the call left it: the processors write into the table     *)
(* they are given before they build a new one.                               *)

Return(res, inp) == [err |-> "", res |-> res, inp |-> inp]

Raise(err, inp) == [err |-> err, res |-> None, inp |-> inp]

\* groupby(key).agg(['mean', 'count']) of column c, reset_index, with the
\* three columns renamed [key, mname, cname]; missing keys are dropped
GroupMeanCount(df, key, c, mname, cname) ==
    LET ks == SetToSeq(Keys(df, key))
    IN  [cols |-> {key, mname, cname},
         rows |-> [i \in 1..Len(ks) |->
                     (key :> ks[i])
                     @@ (mname :> MeanCol(Matching(df, key, ks[i]), c))
                     @@ (cname :> Val(CountCol(Matching(df, key, ks[i]), c)))]]

-----------------------------------------------------------------------------
(* TrainTestProcessor *)

one_hot_encode_system_tab(x) == IF x = Val("my library") THEN 1 ELSE 0

one_hot_encode_screen_name(x) ==
    IF x = Val("Local playlist more") \/ x = Val("My library") THEN 1 ELSE 0

one_hot_encode_source_type(x) ==
    IF x = Val("local-library") \/ x = Val("local-playlist") THEN 1 ELSE 0

\* 1 if x >= 0.6 else 0, x the fraction num/den; a missing x compares False
one_hot_encode_source(x) ==
    IF IsNull(x) THEN 0 ELSE IF 5 * Get(x).num >= 3 * Get(x).den THEN 1 ELSE 0

TrainTestProcessor_parse(df) ==
    IF ~HasCols(df, {"source_system_tab", "source_screen_name", "source_type"})
    THEN Raise("KeyError", df)
    ELSE
    LET filled == FillNa(FillNa(FillNa(df, "source_system_tab", "others"),
                                "source_screen_name", "others"),
                         "source_type", "nan")
        \* written into the caller's table
        marked == SetCol(filled, "source_merged",
                         LAMBDA r : Val(Get(r["source_system_tab"]) \o " | " \o
                                        Get(r["source_screen_name"]) \o " | " \o
                                        Get(r["source_type"])))
    IN  IF ~HasCols(marked, {"target"}) THEN Raise("KeyError", marked)
        ELSE
        LET count_df == GroupMeanCount(marked, "source_merged", "target",
                                       "source_replay_pb", "source_replay_count")
            \* from here on a new table
            merged == Merge(marked, count_df, "source_merged")
        IN  IF ~HasCols(merged, {"source_replay_pb", "source_replay_count"})
            THEN Raise("KeyError", marked)
            ELSE
            LET d1 == SetCol(merged, "1h_source",
                        LAMBDA r : Val(one_hot_encode_source(r["source_replay_pb"])))
                d2 == SetCol(d1, "1h_system_tab",
                        LAMBDA r : Val(one_hot_encode_system_tab(r["source_system_tab"])))
                d3 == SetCol(d2, "1h_screen_name",
                        LAMBDA r : Val(one_hot_encode_screen_name(r["source_screen_name"])))
                d4 == SetCol(d3, "1h_source_type",
                        LAMBDA r : Val(one_hot_encode_source_type(r["source_type"])))
                out == Drop(d4, {"source_merged", "source_replay_pb", "source_replay_count"})
            IN  IF AnyNull(out) THEN Raise("DataIntegrityError", marked)
                ELSE Return(out, marked)

-----------------------------------------------------------------------------
(* SongsProcessor.  The columns is_featured, artist_count, song_lang_boolean, *)
(* genre_count, composer_count and lyricist_count are computed from          *)
(* substring tests on the text of a cell; they are integers, never missing,  *)
(* and are left out of the model.  language holds the text of the float      *)
(* code ("3.0", "17.0", ...).                                                *)

one_hot_encode_lang(x) == IF x \in {Val("-1.0"), Val("17.0"), Val("45.0")} THEN 1 ELSE 0

\* lambda x: 1 if x <= 239738 else 0; a missing length compares False
one_hot_encode_song_length(x) ==
    IF IsNull(x) THEN 0 ELSE IF Get(x) <= 239738 THEN 1 ELSE 0

Bool2Int(b) == IF b THEN 1 ELSE 0

SongsProcessor_parse(df) ==
    IF ~HasCols(df, {"artist_name", "language", "composer", "lyricist", "genre_ids",
                     "song_length"})
    THEN Raise("KeyError", df)
    ELSE
    LET filled == FillNa(FillNa(FillNa(FillNa(FillNa(df,
                        "artist_name", "no_artist"), "language", "nan"),
                        "composer", "nan"), "lyricist", "nan"), "genre_ids", "nan")
        d1 == SetCol(filled, "artist_composer",
                LAMBDA r : Val(Bool2Int(r["artist_name"] = r["composer"])))
        d2 == SetCol(d1, "artist_composer_lyricist",
                LAMBDA r : Val(Bool2Int(/\ r["artist_name"] = r["composer"]
                                        /\ r["artist_name"] = r["lyricist"]
                                        /\ r["composer"] = r["lyricist"])))
        d3 == SetCol(d2, "1h_lang", LAMBDA r : Val(one_hot_encode_lang(r["language"])))
        d4 == SetCol(d3, "1h_song_length",
                LAMBDA r : Val(one_hot_encode_song_length(r["song_length"])))
    IN  IF AnyNull(d4) THEN Raise("DataIntegrityError", d4) ELSE Return(d4, d4)

-----------------------------------------------------------------------------
(* MembersProcessor.  A date cell holds [ord, year, month]: the day number    *)
(* since 1970-01-01 and the calendar year and month of the same day.         *)

\* 'nan' for bd >= 120 or bd <= 7, and for |bd - mean| > 3 * std with
\* mean = 28.997... and 3 * std = 28.615... (in thousandths below); a missing
\* bd fails every comparison and gives 'nan' too
transform_bd_outliers(bd) ==
    IF IsNull(bd) THEN Val("nan")
    ELSE IF Get(bd) >= 120 \/ Get(bd) <= 7 THEN Val("nan")
    ELSE LET dev == 1000 * Get(bd) - 28997
         IN  IF (IF dev < 0 THEN -dev ELSE dev) <= 28615 THEN bd ELSE Val("nan")

one_hot_encode_via(x) == IF x = Val(4) THEN 0 ELSE 1

MembersProcessor_parse(df) ==
    IF ~HasCols(df, {"gender"}) THEN Raise("KeyError", df)
    ELSE
    LET filled == FillNa(df, "gender", "nan")
    IN  IF ~HasCols(filled, {"expiration_date", "registration_init_time"})
        THEN Raise("KeyError", filled)
        ELSE IF \E i \in 1..Len(filled.rows) :
                    \/ IsNull(filled.rows[i]["expiration_date"])
                    \/ IsNull(filled.rows[i]["registration_init_time"])
        \* .dt.days.astype(int) of a missing difference
        THEN Raise("ValueError", filled)
        ELSE
        LET d1 == SetCol(filled, "membership_days",
                    LAMBDA r : Val(Get(r["expiration_date"]).ord
                                   - Get(r["registration_init_time"]).ord))
            d2 == SetCol(d1, "registration_year",
                    LAMBDA r : Val(Get(r["registration_init_time"]).year))
            d3 == SetCol(d2, "registration_month",
                    LAMBDA r : Val(Get(r["registration_init_time"]).month))
            d4 == SetCol(d3, "expiration_year",
                    LAMBDA r : Val(Get(r["expiration_date"]).year))
            d5 == SetCol(d4, "expiration_month",
                    LAMBDA r : Val(Get(r["expiration_date"]).month))
            d6 == Drop(d5, {"registration_init_time"})
        IN  IF ~HasCols(d6, {"bd", "registered_via"}) THEN Raise("KeyError", d6)
            ELSE
            LET d7 == SetCol(d6, "bd", LAMBDA r : transform_bd_outliers(r["bd"]))
                d8 == SetCol(d7, "1h_via",
                        LAMBDA r : Val(one_hot_encode_via(r["registered_via"])))
            IN  IF AnyNull(d8) THEN Raise("DataIntegrityError", d8) ELSE Return(d8, d8)

-----------------------------------------------------------------------------
(* SongExtraProcessor.  An isrc cell holds the number that characters 5..6   *)
(* of the code spell (its two-digit year); a cell that is not a string is    *)
(* missing.                                                                  *)

transform_isrc_to_year(isrc) ==
    IF IsNull(isrc) THEN NULL
    ELSE IF Get(isrc) > 17 THEN Val(1900 + Get(isrc)) ELSE Val(2000 + Get(isrc))

\* 1 if 2013 <= float(x) <= 2017 else 0; a missing year compares False
one_hot_encode_year(x) ==
    IF IsNull(x) THEN 0 ELSE IF 2013 <= Get(x) /\ Get(x) <= 2017 THEN 1 ELSE 0

SongExtraProcessor_parse(df) ==
    IF ~HasCols(df, {"isrc"}) THEN Raise("KeyError", df)
    ELSE
    LET d1 == SetCol(df, "song_year", LAMBDA r : transform_isrc_to_year(r["isrc"]))
    IN  IF ~HasCols(d1, {"name", "isrc"}) THEN Raise("KeyError", d1)
        ELSE
        LET d2 == Drop(d1, {"name", "isrc"})
            d3 == SetCol(d2, "1h_song_year",
                    LAMBDA r : Val(one_hot_encode_year(r["song_year"])))
            d4 == FillNa(d3, "song_year", 2017)
        IN  IF AnyNull(d4) THEN Raise("DataIntegrityError", d4) ELSE Return(d4, d4)

-----------------------------------------------------------------------------
(* EngineeringProcessor(ref_df).  None of its steps writes into the table    *)
(* it is given: each merge builds a new one.                                 *)

\* A play count that merges the reference rows themselves, one per row.
generate_play_count_unaggregated(ref_df, df) ==
    IF ~HasCols(ref_df, {"song_id"}) \/ ~HasCols(df, {"song_id"})
    THEN Raise("KeyError", df)
    ELSE
    LET count_df == ValueCountsPerRow(ref_df, "song_id", "play_count")
        merged == Merge(df, count_df, "song_id")
    IN  IF ~HasCols(merged, {"play_count"}) THEN Raise("KeyError", df)
        ELSE Return(FillNa(merged, "play_count", 0), df)

generate_play_count(ref_df, df) ==
    IF ~HasCols(ref_df, {"song_id"}) \/ ~HasCols(df, {"song_id"})
    THEN Raise("KeyError", df)
    ELSE
    LET count_df == ValueCounts(ref_df, "song_id", "play_count")
        merged == Merge(df, count_df, "song_id")
    IN  IF ~HasCols(merged, {"play_count"}) THEN Raise("KeyError", df)
        ELSE Return(FillNa(merged, "play_count", 0), df)

generate_track_count(ref_df, df) ==
    IF ~HasCols(ref_df, {"song_id", "artist_name"}) THEN Raise("KeyError", df)
    ELSE
    LET firsts == DropDuplicates(Select(ref_df, {"song_id", "artist_name"}), {"song_id"})
        \* groupby('artist_name').agg('count'): present song_id cells per artist
        ks == SetToSeq(Keys(firsts, "artist_name"))
        track_count_df ==
            [cols |-> {"artist_name", "track_count"},
             rows |-> [i \in 1..Len(ks) |->
                         ("artist_name" :> ks[i])
                         @@ ("track_count" :>
                               Val(CountCol(Matching(firsts, "artist_name", ks[i]),
                                            "song_id")))]]
    IN  IF ~HasCols(df, {"artist_name", "target"}) THEN Raise("KeyError", df)
        ELSE
        LET artist_count_df ==
                Merge(GroupMeanCount(df, "artist_name", "target", "replay_pb", "play_count"),
                      track_count_df, "artist_name")
            merged == Merge(df, Select(artist_count_df, {"artist_name", "track_count"}),
                            "artist_name")
        IN  IF ~HasCols(merged, {"track_count"}) THEN Raise("KeyError", df)
            ELSE Return(FillNa(merged, "track_count", 0), df)

\* A cover-language count that counts the reference rows of the creator
\* without first reducing them to distinct (creator, language) pairs.
generate_cover_lang_no_dedup(ref_df, df) ==
    IF ~HasCols(ref_df, {"artist_name", "language"}) \/ ~HasCols(df, {"artist_name"})
    THEN Raise("KeyError", df)
    ELSE
    LET cover_lang_df == ValueCounts(Select(ref_df, {"artist_name", "language"}),
                                     "artist_name", "cover_lang")
        merged == Merge(df, cover_lang_df, "artist_name")
    IN  IF ~HasCols(merged, {"cover_lang"}) THEN Raise("KeyError", df)
        ELSE Return(FillNa(merged, "cover_lang", 0), df)

generate_cover_lang(ref_df, df) ==
    IF ~HasCols(ref_df, {"artist_name", "language"}) \/ ~HasCols(df, {"artist_name"})
    THEN Raise("KeyError", df)
    ELSE
    LET pairs == DropDuplicates(Select(ref_df, {"artist_name", "language"}),
                                {"artist_name", "language"})
        cover_lang_df == ValueCounts(pairs, "artist_name", "cover_lang")
        merged == Merge(df, cover_lang_df, "artist_name")
    IN  IF ~HasCols(merged, {"cover_lang"}) THEN Raise("KeyError", df)
        ELSE Return(FillNa(merged, "cover_lang", 0), df)

EngineeringProcessor_parse(ref_df, df) ==
    LET a == generate_play_count(ref_df, df)
    IN  IF a.err # "" THEN Raise(a.err, df)
        ELSE LET b == generate_track_count(ref_df, a.res)
             IN  IF b.err # "" THEN Raise(b.err, df)
                 ELSE LET c == generate_cover_lang(ref_df, b.res)
                      IN  IF c.err # "" THEN Raise(c.err, df) ELSE Return(c.res, df)

-----------------------------------------------------------------------------
(* DataProcessor.process *)

Commands == {"train", "test", "members", "songs", "song_extra_info", "engineering"}

\* A chain whose first branch tests command == 'train' alone.
SelectProcessorTrainOnly(command) ==
    IF command = "train" THEN "TrainTestProcessor"
    ELSE IF command = "members" THEN "MembersProcessor"
    ELSE IF command = "songs" THEN "SongsProcessor"
    ELSE IF command = "song_extra_info" THEN "SongExtraProcessor"
    ELSE IF command = "engineering" THEN "EngineeringProcessor"
    ELSE "none"

\* the class the if/elif chain on command constructs; "none" when no branch
\* is taken and res stays None
SelectProcessor(command) ==
    IF command \in {"train", "test"} THEN "TrainTestProcessor"
    ELSE IF command = "members" THEN "MembersProcessor"
    ELSE IF command = "songs" THEN "SongsProcessor"
    ELSE IF command = "song_extra_info" THEN "SongExtraProcessor"
    ELSE IF command = "engineering" THEN "EngineeringProcessor"
    ELSE "none"

IsNone(df) == df.cols = {}

\* process(df, command, ref_df): the result of the parse it selects, with
\* invoked, the sequence of processor classes whose parse was called
process(df, command, ref_df) ==
    LET cls == SelectProcessor(command)
        With(p, inv) == [err |-> p.err, res |-> p.res, inp |-> p.inp, invoked |-> inv]
    IN  IF cls = "none"
        \* assert res is not None
        THEN With(Raise("DispatchError", df), <<>>)
        ELSE IF cls = "EngineeringProcessor" /\ IsNone(ref_df)
        \* assert ref_df is not None
        THEN With(Raise("DispatchError", df), <<>>)
        ELSE With(CASE cls = "TrainTestProcessor" -> TrainTestProcessor_parse(df)
                    [] cls = "MembersProcessor" -> MembersProcessor_parse(df)
                    [] cls = "SongsProcessor" -> SongsProcessor_parse(df)
                    [] cls = "SongExtraProcessor" -> SongExtraProcessor_parse(df)
                    [] cls = "EngineeringProcessor" -> EngineeringProcessor_parse(ref_df, df),
                  << cls >>)

-----------------------------------------------------------------------------
(* Bounds and the raw tables under the data directory *)

MaxEventRows == 2

MaxSideRows == 2

MaxTargetRows == 1

MaxRefRows == 3

\* the non-empty sequences over S of length at most n
RECURSIVE SeqsUpTo(_, _)
SeqsUpTo(S, n) ==
    IF n = 0 THEN {}
    ELSE {<<x>> : x \in S}
         \cup {Append(q, x) : q \in SeqsUpTo(S, n - 1), x \in S}

Date(ord, year, month) == Val([ord |-> ord, year |-> year, month |-> month])

Sources == {
    [tab |-> NULL, screen |-> NULL, type |-> NULL, target |-> 1],
    [tab |-> Val("my library"), screen |-> Val("Local playlist more"),
     type |-> Val("local-library"), target |-> 0] }

EventCols == {"msno", "song_id", "source_system_tab", "source_screen_name",
              "source_type"}

TrainRow(song, src) ==
    [c \in EventCols \cup {"target"} |->
        CASE c = "msno" -> Val("u1")
          [] c = "song_id" -> Val(song)
          [] c = "source_system_tab" -> src.tab
          [] c = "source_screen_name" -> src.screen
          [] c = "source_type" -> src.type
          [] c = "target" -> Val(src.target)]

\* train.csv: events on song A (which songs.csv may describe) and on song B
\* (which it never does)
TrainRows ==
    {TrainRow("A", src) : src \in Sources}
    \cup {TrainRow("B", src) : src \in {s \in Sources : IsNull(s.tab)}}

TrainTables ==
    {DataFrame(EventCols \cup {"target"}, rows) : rows \in SeqsUpTo(TrainRows, MaxEventRows)}

\* test.csv has no target column
TestTables ==
    {DataFrame(EventCols, << [c \in EventCols |-> TrainRow(song, src)[c]] >>) :
        song \in {"B"}, src \in {s \in Sources : ~IsNull(s.tab)}}

SongCols == {"song_id", "song_length", "genre_ids", "artist_name", "composer",
             "lyricist", "language"}

SongRow(song, artist, lang) ==
    [c \in SongCols |->
        CASE c = "song_id" -> Val(song)
          [] c = "song_length" -> Val(200000)
          [] c = "genre_ids" -> Val("465")
          [] c = "artist_name" -> artist
          [] c = "composer" -> NULL
          [] c = "lyricist" -> NULL
          [] c = "language" -> lang]

SongsTables ==
    {DataFrame(SongCols, rows) :
        rows \in {<<>>} \cup SeqsUpTo({SongRow("A", Val("X"), Val("3.0"))}, MaxSideRows)}

SongExtraCols == {"song_id", "name", "isrc"}

SongExtraRow(song, isrc) ==
    [c \in SongExtraCols |->
        CASE c = "song_id" -> Val(song) [] c = "name" -> Val("title") [] c = "isrc" -> isrc]

SongExtraTables ==
    {DataFrame(SongExtraCols, rows) :
        rows \in {<<>>} \cup SeqsUpTo({SongExtraRow("A", Val(5))}, MaxSideRows)}

MemberCols == {"msno", "bd", "gender", "registered_via", "registration_init_time",
               "expiration_date"}

MemberRow(msno, bd, gender) ==
    [c \in MemberCols |->
        CASE c = "msno" -> Val(msno)
          [] c = "bd" -> bd
          [] c = "gender" -> gender
          [] c = "registered_via" -> Val(4)
          [] c = "registration_init_time" -> Date(15206, 2011, 8)
          [] c = "expiration_date" -> Date(17429, 2017, 9)]

MembersTables ==
    {DataFrame(MemberCols, rows) :
        rows \in {<<>>} \cup SeqsUpTo({MemberRow("u1", Val(0), NULL)}, MaxSideRows)}

-----------------------------------------------------------------------------
(* Tables handed to DataProcessor.process directly *)

EngCols == {"song_id", "artist_name", "language", "target"}

EngRow(song, artist, lang) ==
    [c \in EngCols |->
        CASE c = "song_id" -> Val(song)
          [] c = "artist_name" -> artist
          [] c = "language" -> lang
          [] c = "target" -> Val(1)]

\* reference rows: two items, creator X in two languages, creator Y in one, and
\* an event whose song is described nowhere (creator and language missing)
RefRows ==
    {EngRow(song, Val(pair[1]), Val(pair[2])) :
        song \in {"A", "B"}, pair \in {<<"X", "3.0">>, <<"X", "17.0">>, <<"Y", "3.0">>}}
    \cup {EngRow("B", NULL, NULL)}

RefTables == {DataFrame(EngCols, rows) : rows \in {<<>>} \cup SeqsUpTo(RefRows, MaxRefRows)}

TargetRows == {EngRow("A", Val("X"), Val("3.0")), EngRow("B", Val("Y"), Val("3.0")),
               EngRow("C", Val("Z"), Val("17.0")), EngRow("A", NULL, NULL)}

\* target tables, and one without the target column
TargetTables ==
    {DataFrame(EngCols, rows) : rows \in SeqsUpTo(TargetRows, MaxTargetRows)}
    \cup {Drop(DataFrame(EngCols, << EngRow("A", Val("X"), Val("3.0")) >>), {"target"})}

SampleSongs ==
    {DataFrame(SongCols, rows) :
        rows \in {<<>>} \cup
                 SeqsUpTo({SongRow("A", Val("X"), Val("3.0")), SongRow("B", NULL, NULL),
                           SongRow("B", Val("Y"), Val("17.0")),
                           [SongRow("A", Val("X"), NULL) EXCEPT !["song_length"] = NULL]}, 1)}

SampleSongExtras ==
    {DataFrame(SongExtraCols, rows) :
        rows \in {<<>>} \cup
                 SeqsUpTo({SongExtraRow("A", Val(5)), SongExtraRow("A", Val(18)),
                           SongExtraRow("B", NULL), SongExtraRow("B", Val(15))}, 1)}

SampleMembers ==
    {DataFrame(MemberCols, rows) :
        rows \in {<<>>} \cup
                 SeqsUpTo({MemberRow("u1", Val(0), NULL), MemberRow("u1", Val(25), Val("male")),
                           MemberRow("u2", Val(90), Val("female")),
                           MemberRow("u2", NULL, NULL),
                           [MemberRow("u2", Val(30), NULL) EXCEPT !["registered_via"] = NULL]},
                          1)}

SampleTables ==
    TrainTables \cup TestTables \cup SampleSongs \cup SampleSongExtras \cup SampleMembers

UnknownCommands == {"", "Train", "engineer", "comb"}

Requests ==
    [df : TargetTables, command : {"engineering"}, ref_df : RefTables \cup {None}]
    \cup [df : SampleTables, command : (Commands \ {"engineering"}) \cup UnknownCommands,
          ref_df : {None}]
    \cup [df : TargetTables, command : UnknownCommands,
          ref_df : {r \in RefTables : NRows(r) <= 1}]

-----------------------------------------------------------------------------
(* FeatureProcessor *)

INITIALIZATION_READY == 0

LOAD_READY == 1

PREPROCESS_READY == 2

ENGINEERING_READY == 3

VARIABLES
    files,                \* the five csv files under _root
    songs_df, song_extra_info_df, members_df, train_df, test_df, comb_df,
    state,                \* _state
    lastCall,             \* the last stage method called, what it met and how it ended
    calls,                \* the DataProcessor.process calls that method made
    request,              \* a direct call of DataProcessor.process: its arguments
    reply                 \* ... and its outcome

tables == <<songs_df, song_extra_info_df, members_df, train_df, test_df, comb_df>>

vars == <<files, songs_df, song_extra_info_df, members_df, train_df, test_df, comb_df,
          state, lastCall, calls, request, reply>>

NoRequest == [df |-> None, command |-> "", ref_df |-> None]

NoReply == [err |-> "", res |-> None, inp |-> None, invoked |-> <<>>, done |-> FALSE]

\* what pre_process or feature_engineering met when it was called: the state it
\* tested and the tables it read
Met == [state |-> state, train_df |-> train_df, test_df |-> test_df, comb_df |-> comb_df]

\* __init__ and load_raw read no table
MetNothing == [state |-> INITIALIZATION_READY, train_df |-> None, test_df |-> None,
               comb_df |-> None]

\* the tables and the run of one stage method, threaded through its statements
Ctx0 == [train |-> train_df, test |-> test_df, members |-> members_df,
         songs |-> songs_df, song_extra_info |-> song_extra_info_df,
         comb |-> comb_df, err |-> "", calls |-> <<>>]

\* self._<dst>_df = DataProcessor().process(self._<src>_df, command, self._<ref>_df)
\* for d = [dst, src, command, ref] (ref "" when no reference is passed): the
\* parse writes into the object bound to src; on a raise nothing is assigned
\* and the statements after it do not run
Assign(ctx, d) ==
    IF ctx.err # "" THEN ctx
    ELSE Bind(process(ctx[d.src], d.command, IF d.ref = "" THEN None ELSE ctx[d.ref]),
              LAMBDA p :
           LET call == [command |-> d.command, df |-> ctx[d.src],
                        ref_df |-> IF d.ref = "" THEN None ELSE ctx[d.ref],
                        invoked |-> p.invoked, err |-> p.err, res |-> p.res]
           IN  IF p.err # ""
               THEN [ctx EXCEPT ![d.src] = p.inp, !.calls = Append(@, call), !.err = p.err]
               ELSE [ctx EXCEPT ![d.src] = p.inp, !.calls = Append(@, call),
                                ![d.dst] = p.res])

\* the assignments ds, one after the other
RECURSIVE Run(_, _)
Run(ctx, ds) == IF ds = <<>> THEN ctx ELSE Run(Assign(ctx, Head(ds)), Tail(ds))

Init ==
    /\ files \in [train : TrainTables, test : TestTables, songs : SongsTables,
                  song_extra_info : SongExtraTables, members : MembersTables]
    /\ songs_df = None /\ song_extra_info_df = None /\ members_df = None
    /\ train_df = None /\ test_df = None /\ comb_df = None
    /\ state = INITIALIZATION_READY
    /\ lastCall = [op |-> "__init__", err |-> "", met |-> MetNothing]
    /\ calls = <<>>
    /\ request = NoRequest
    /\ reply = NoReply

\* assert self._state >= FeatureProcessor.__INITIALIZATION_READY
load_raw_allowed(st) == st >= INITIALIZATION_READY

load_raw ==
    /\ IF ~load_raw_allowed(state)
       THEN /\ lastCall' = [op |-> "load_raw", err |-> "StageOrderError", met |-> MetNothing]
            /\ UNCHANGED <<tables, state>>
       ELSE /\ train_df' = files.train
            /\ test_df' = files.test
            /\ songs_df' = files.songs
            /\ song_extra_info_df' = files.song_extra_info
            /\ members_df' = files.members
            /\ state' = LOAD_READY
            /\ lastCall' = [op |-> "load_raw", err |-> "", met |-> MetNothing]
            /\ UNCHANGED comb_df
    /\ calls' = <<>>
    /\ UNCHANGED <<files, request, reply>>

\* assert self._state >= FeatureProcessor.__LOAD_READY
pre_process_allowed(st) == st >= LOAD_READY

\* A test dispatch that is given the loaded test table.
TestDispatchSourceTest == "test"

\* the table handed to the dispatch with command 'test': self._train_df
TestDispatchSource == "train"

\* the five dispatches of pre_process, in order
PreProcessDispatches ==
    << [dst |-> "train", src |-> "train", command |-> "train", ref |-> ""],
       [dst |-> "test", src |-> TestDispatchSource, command |-> "test", ref |-> ""],
       [dst |-> "members", src |-> "members", command |-> "members", ref |-> ""],
       [dst |-> "songs", src |-> "songs", command |-> "songs", ref |-> ""],
       [dst |-> "song_extra_info", src |-> "song_extra_info",
        command |-> "song_extra_info", ref |-> ""] >>

\* the merges and the append of pre_process
PreProcessMerges(ctx) ==
    Bind(Merge(ctx.songs, ctx.song_extra_info, "song_id"), LAMBDA songs :
    Bind(Merge(Merge(ctx.train, songs, "song_id"), ctx.members, "msno"), LAMBDA train :
    Bind(Merge(Merge(ctx.test, songs, "song_id"), ctx.members, "msno"), LAMBDA test :
        [ctx EXCEPT !.songs = songs, !.train = train, !.test = test,
                    !.comb = Append2(train, test)])))

\* the body of pre_process after its guard: the merges follow only when no
\* dispatch raised
PreProcess(ctx) ==
    Bind(Run(ctx, PreProcessDispatches),
         LAMBDA d : IF d.err = "" THEN PreProcessMerges(d) ELSE d)

pre_process ==
    /\ IF ~pre_process_allowed(state)
       THEN /\ lastCall' = [op |-> "pre_process", err |-> "StageOrderError", met |-> Met]
            /\ calls' = <<>>
            /\ UNCHANGED <<tables, state>>
       ELSE \E c \in {PreProcess(Ctx0)} :
                /\ train_df' = c.train
                /\ test_df' = c.test
                /\ members_df' = c.members
                /\ songs_df' = c.songs
                /\ song_extra_info_df' = c.song_extra_info
                /\ comb_df' = c.comb
                /\ state' = IF c.err = "" THEN PREPROCESS_READY ELSE state
                /\ lastCall' = [op |-> "pre_process", err |-> c.err, met |-> Met]
                /\ calls' = c.calls
    /\ UNCHANGED <<files, request, reply>>

\* A guard that admits a pipeline that was loaded but not pre-processed.
feature_engineering_allowed_from_load(st) == st >= LOAD_READY

\* assert self._state >= FeatureProcessor.__PREPROCESS_READY
feature_engineering_allowed(st) == st >= PREPROCESS_READY

\* An engineering of the test table against the test table itself.
TestReferenceTest == "test"

\* the reference of the engineering dispatch for the test table: self._comb_df
TestReference == "comb"

\* the two dispatches of feature_engineering, in order
FeatureEngineeringDispatches ==
    << [dst |-> "train", src |-> "train", command |-> "engineering", ref |-> "train"],
       [dst |-> "test", src |-> "test", command |-> "engineering", ref |-> TestReference] >>

feature_engineering ==
    /\ IF ~feature_engineering_allowed(state)
       THEN /\ lastCall' = [op |-> "feature_engineering", err |-> "StageOrderError",
                            met |-> Met]
            /\ calls' = <<>>
            /\ UNCHANGED <<tables, state>>
       ELSE \E c \in {Run(Ctx0, FeatureEngineeringDispatches)} :
                /\ train_df' = c.train
                /\ test_df' = c.test
                /\ state' = IF c.err = "" THEN ENGINEERING_READY ELSE state
                /\ lastCall' = [op |-> "feature_engineering", err |-> c.err, met |-> Met]
                /\ calls' = c.calls
                /\ UNCHANGED <<members_df, songs_df, song_extra_info_df, comb_df>>
    /\ UNCHANGED <<files, request, reply>>

Next == load_raw \/ pre_process \/ feature_engineering

Spec == Init /\ [][Next]_vars

-----------------------------------------------------------------------------
(* DataProcessor.process called on its own, on every request of Requests *)

InitDispatch ==
    /\ files = CHOOSE f \in [train : TrainTables, test : TestTables, songs : SongsTables,
                             song_extra_info : SongExtraTables, members : MembersTables] :
                   TRUE
    /\ songs_df = None /\ song_extra_info_df = None /\ members_df = None
    /\ train_df = None /\ test_df = None /\ comb_df = None
    /\ state = INITIALIZATION_READY
    /\ lastCall = [op |-> "__init__", err |-> "", met |-> MetNothing]
    /\ calls = <<>>
    /\ request \in Requests
    /\ reply = NoReply

Dispatch ==
    /\ ~reply.done
    /\ \E p \in {process(request.df, request.command, request.ref_df)} :
          reply' = [err |-> p.err, res |-> p.res, inp |-> p.inp, invoked |-> p.invoked,
                    done |-> TRUE]
    /\ UNCHANGED <<files, tables, state, lastCall, calls, request>>

NextDispatch == Dispatch

SpecDispatch == InitDispatch /\ [][NextDispatch]_vars

-----------------------------------------------------------------------------
(* Properties of the pipeline (Spec) *)

PreProcessRan == lastCall.op = "pre_process" /\ lastCall.err = ""

EngineeringRan == lastCall.op = "feature_engineering" /\ lastCall.err = ""

\* C1: pre_process called in a state below LOAD_READY, and feature_engineering
\* called in a state below PREPROCESS_READY, fail with the stage-order error,
\* dispatch nothing and leave the state where it was.
StageOrderGuard ==
    /\ (lastCall.op = "pre_process" /\ lastCall.met.state < LOAD_READY)
          => (lastCall.err = "StageOrderError" /\ calls = <<>>
              /\ state = lastCall.met.state)
    /\ (lastCall.op = "feature_engineering" /\ lastCall.met.state < PREPROCESS_READY)
          => (lastCall.err = "StageOrderError" /\ calls = <<>>
              /\ state = lastCall.met.state)

\* feature_engineering was called after load_raw alone and was refused
EngineeringRefusedAfterLoad ==
    /\ lastCall.op = "feature_engineering"
    /\ lastCall.met.state = LOAD_READY
    /\ ~IsNone(train_df)
    /\ lastCall.err = "StageOrderError"

\* C2: no call of load_raw, pre_process or feature_engineering lowers the state.
StateNeverDecreases == [][state' >= state]_vars

\* the row-count part of C4 for one merge: every left row survives, and the
\* count is kept when no key occurs twice on the right
UniqueKeys(df, key) ==
    \A i, j \in 1..Len(df.rows) : df.rows[i][key] = df.rows[j][key] => i = j

OutputsNullFree ==
    (state = ENGINEERING_READY /\ EngineeringRan) => (~AnyNull(train_df) /\ ~AnyNull(test_df))

\* C7: a feature_engineering that completed made exactly two dispatches, both
\* to the EngineeringProcessor: the train table it met with that same table as
\* reference, then the test table it met with the combined table as reference;
\* the combined table is the train table it met followed by the test table it
\* met, and it is left as it was.
EngineeringReferences ==
    EngineeringRan =>
        /\ Len(calls) = 2
        /\ \A i \in 1..2 : /\ calls[i].command = "engineering"
                           /\ calls[i].invoked = << "EngineeringProcessor" >>
        /\ calls[1].df = lastCall.met.train_df
        /\ calls[1].ref_df = lastCall.met.train_df
        /\ calls[2].df = lastCall.met.test_df
        /\ calls[2].ref_df = lastCall.met.comb_df
        /\ lastCall.met.comb_df = Append2(lastCall.met.train_df, lastCall.met.test_df)
        /\ comb_df = lastCall.met.comb_df
        /\ train_df = calls[1].res /\ test_df = calls[2].res

\* feature_engineering completed on a train table of several rows
EngineeredSeveralRows ==
    /\ EngineeringRan
    /\ state = ENGINEERING_READY
    /\ NRows(lastCall.met.train_df) >= 2
    /\ NRows(comb_df) = NRows(lastCall.met.train_df) + NRows(lastCall.met.test_df)

\* C10 as amended: the dispatch pre_process makes with command test is given
\* the train table as the train dispatch returned it (already transformed and
\* stored), which on freshly loaded tables is neither the loaded train table
\* nor the loaded test table.
TestDispatchGetsTransformedTrain ==
    (lastCall.op = "pre_process" /\ Len(calls) >= 2) =>
        /\ calls[1].command = "train" /\ calls[2].command = "test"
        /\ calls[2].df = calls[1].res
        /\ (lastCall.met.train_df = files.train /\ lastCall.met.test_df = files.test)
              => (calls[2].df # files.train /\ calls[2].df # files.test)

\* pre_process completed on freshly loaded tables
PreProcessedFreshTables ==
    /\ PreProcessRan
    /\ lastCall.met.train_df = files.train /\ lastCall.met.test_df = files.test
    /\ calls[2].command = "test"
    /\ calls[2].df = calls[1].res

\* C10 as stated: the dispatch pre_process makes with command test is given the
\* train table as it was before the train dispatch (the table pre_process met).
TestDispatchGetsStaleTrain ==
    (lastCall.op = "pre_process" /\ Len(calls) >= 2) =>
        (calls[2].command = "test" /\ calls[2].df = lastCall.met.train_df)

-----------------------------------------------------------------------------
(* Properties of the dispatcher and of the engineering processor            *)
(* (SpecDispatch)                                                            *)

EngineeringDone ==
    reply.done /\ request.command = "engineering" /\ reply.err = ""

\* C3: each of the six commands reaches exactly one processor (train and test
\* the TrainTestProcessor, the others their own); any other command fails with
\* the dispatch error, returns no table and reaches no processor; so does
\* engineering without a reference table.
DispatcherRouting ==
    reply.done =>
        LET c == request.command
            refused == /\ reply.err = "DispatchError"
                       /\ IsNone(reply.res)
                       /\ reply.invoked = <<>>
        IN  /\ c \in {"train", "test"} => reply.invoked = << "TrainTestProcessor" >>
            /\ c = "members" => reply.invoked = << "MembersProcessor" >>
            /\ c = "songs" => reply.invoked = << "SongsProcessor" >>
            /\ c = "song_extra_info" => reply.invoked = << "SongExtraProcessor" >>
            /\ (c = "engineering" /\ ~IsNone(request.ref_df))
                  => reply.invoked = << "EngineeringProcessor" >>
            /\ (c = "engineering" /\ IsNone(request.ref_df)) => refused
            /\ c \notin Commands => refused

\* engineering was requested without a reference table and refused
EngineeringRefusedWithoutReference ==
    /\ reply.done
    /\ request.command = "engineering" /\ IsNone(request.ref_df)
    /\ reply.err = "DispatchError" /\ reply.invoked = <<>>

\* C5: in an engineering dispatch that completed, the play-count merge, the
\* track-count merge and the cover-language merge each returned as many rows
\* as they were given.
EngineeringMergesKeepRowCount ==
    EngineeringDone =>
        LET a == generate_play_count(request.ref_df, request.df).res
            b == generate_track_count(request.ref_df, a).res
        IN  /\ NRows(a) = NRows(request.df)
            /\ NRows(b) = NRows(a)
            /\ NRows(reply.res) = NRows(b)

\* an engineering dispatch completed against a reference that holds the item
\* of a target row twice and its creator in two rows of the same language
EngineeredAgainstDuplicates ==
    /\ EngineeringDone
    /\ \E i \in 1..NRows(request.df) : \E j, k \in 1..NRows(request.ref_df) :
          /\ j # k
          /\ request.ref_df.rows[j]["song_id"] = request.df.rows[i]["song_id"]
          /\ request.ref_df.rows[k]["song_id"] = request.df.rows[i]["song_id"]
          /\ request.ref_df.rows[j]["artist_name"] = request.df.rows[i]["artist_name"]
          /\ request.ref_df.rows[k]["artist_name"] = request.df.rows[i]["artist_name"]
          /\ request.ref_df.rows[j]["language"] = request.ref_df.rows[k]["language"]
    /\ NRows(reply.res) = NRows(request.df)

\* C8: in the result of an engineering dispatch, play_count of a row is the
\* number of reference rows with the row's song_id (0 when there is none).
PlayCountIsReferenceCount ==
    EngineeringDone =>
        \A i \in 1..NRows(reply.res) :
            reply.res.rows[i]["play_count"] =
                Val(Cardinality({j \in 1..NRows(request.ref_df) :
                        request.ref_df.rows[j]["song_id"] = reply.res.rows[i]["song_id"]}))

\* reference item keys [A, A, B]: the target row of A has play_count 2
PlayCountExample ==
    /\ EngineeringDone
    /\ NRows(request.ref_df) = 3
    /\ [j \in 1..3 |-> request.ref_df.rows[j]["song_id"]] = << Val("A"), Val("A"), Val("B") >>
    /\ reply.res.rows[1]["song_id"] = Val("A")
    /\ reply.res.rows[1]["play_count"] = Val(2)

\* C9: in the result of an engineering dispatch, cover_lang of a row is the
\* number of distinct languages the reference pairs with the row's creator
\* (0 when the reference does not hold the creator, or the row has none).
CoverLangIsDistinctLanguages ==
    EngineeringDone =>
        \A i \in 1..NRows(reply.res) :
            LET a == reply.res.rows[i]["artist_name"]
                langs == {request.ref_df.rows[j]["language"] :
                            j \in {k \in 1..NRows(request.ref_df) :
                                     request.ref_df.rows[k]["artist_name"] = a}}
            IN  reply.res.rows[i]["cover_lang"] =
                    Val(IF IsNull(a) THEN 0 ELSE Cardinality(langs))

\* reference pairs [(X, 3.0), (X, 3.0), (X, 17.0)]: the target row of X has
\* cover_lang 2
CoverLangExample ==
    /\ EngineeringDone
    /\ NRows(request.ref_df) = 3
    /\ [j \in 1..3 |-> << request.ref_df.rows[j]["artist_name"],
                          request.ref_df.rows[j]["language"] >>]
         = << <<Val("X"), Val("3.0")>>, <<Val("X"), Val("3.0")>>, <<Val("X"), Val("17.0")>> >>
    /\ reply.res.rows[1]["artist_name"] = Val("X")
    /\ reply.res.rows[1]["cover_lang"] = Val(2)

=============================================================================
